---- MODULE Spec2Model ----
(***************************************************************************)
(* Model of src/main.py: SecureTarProcessor (list_archive, extract_archive)*)
(* and main().  The file system is modelled as a map from absolute paths   *)
(* (sequences of components) to nodes; pathlib's lexical operations and    *)
(* the operating system's component-by-component path resolution are       *)
(* modelled separately, as the code uses them.                             *)
(***************************************************************************)
EXTENDS Integers, Sequences, FiniteSets, TLC

\* ------------------------------------------------------------- bounds
MaxEntries == 2     \* longest archive explored
MaxCalls   == 2     \* calls made on one processor

\* ------------------------------------------------------ paths (pathlib)
\* A pathlib path: anchored at "/" (abs) or relative to the working directory.
P(abs, parts) == [abs |-> abs, parts |-> parts]

NoName == P(FALSE, <<>>)

\* The process's working directory (an absolute location of the file system).
Cwd == <<"w">>

\* extract_path = Path(extract_to), a relative directory name (main.py:61-64).
extract_path == P(FALSE, <<"out">>)

\* The destination root as an absolute location.
Root == Cwd \o extract_path.parts

Front(s) == SubSeq(s, 1, Len(s) - 1)

\* extract_path / member.name (pathlib's "/": an absolute right operand
\* replaces the left one; ".." segments are kept, not collapsed).
Join(base, name) ==
  IF name.abs THEN name ELSE P(base.abs, base.parts \o name.parts)

\* Path.parent: purely lexical, drops the last segment.
Parent(p) == IF p.parts = <<>> THEN p ELSE P(p.abs, Front(p.parts))

\* --------------------------------------------- file system (the OS side)
Dir == [kind |-> "dir", data |-> <<>>]
File(data) == [kind |-> "file", data |-> data]

Put(fs, at, node) == [q \in (DOMAIN fs) \cup {at} |-> IF q = at THEN node ELSE fs[q]]

Up(at) == IF at = <<>> THEN at ELSE Front(at)

\* The kernel walks the segments in turn from the directory `at': ".." moves
\* to the parent of the directory reached, a name must be an existing directory.
RECURSIVE ResolveDir(_, _, _)
ResolveDir(fs, at, parts) ==
  IF parts = <<>> THEN [err |-> "none", at |-> at]
  ELSE IF Head(parts) = ".." THEN ResolveDir(fs, Up(at), Tail(parts))
  ELSE LET nxt == Append(at, Head(parts)) IN
       IF nxt \notin DOMAIN fs THEN [err |-> "ENOENT", at |-> at]
       ELSE IF fs[nxt].kind # "dir" THEN [err |-> "ENOTDIR", at |-> at]
       ELSE ResolveDir(fs, nxt, Tail(parts))

\* The location a path names: every segment but the last is walked as a
\* directory, the last one may be absent.
Lookup(fs, p) ==
  LET start == IF p.abs THEN <<>> ELSE Cwd IN
  IF p.parts = <<>> THEN [err |-> "none", at |-> start]
  ELSE LET d == ResolveDir(fs, start, Front(p.parts))
           last == p.parts[Len(p.parts)]
       IN IF d.err # "none" THEN d
          ELSE IF last = ".." THEN [err |-> "none", at |-> Up(d.at)]
          ELSE [err |-> "none", at |-> Append(d.at, last)]

\* os.mkdir(path)
OsMkdir(fs, p) ==
  LET r == Lookup(fs, p) IN
  IF r.err # "none" THEN [err |-> r.err, fs |-> fs]
  ELSE IF r.at \in DOMAIN fs THEN [err |-> "EEXIST", fs |-> fs]
  ELSE [err |-> "none", fs |-> Put(fs, r.at, Dir)]

\* Path.is_dir(): a failing stat counts as "no".
IsDir(fs, p) ==
  LET r == Lookup(fs, p) IN
  r.err = "none" /\ r.at \in DOMAIN fs /\ fs[r.at].kind = "dir"

\* Path.mkdir(parents=..., exist_ok=...): os.mkdir; on FileNotFoundError with
\* parents the parent is made first and the mkdir repeated without parents; any
\* other OSError is swallowed when exist_ok and the path is a directory.
RECURSIVE PathMkdir(_, _, _, _)
PathMkdir(fs, p, parents, exist_ok) ==
  LET r == OsMkdir(fs, p) IN
  IF r.err = "none" THEN r
  ELSE IF r.err = "ENOENT" THEN
       IF ~parents \/ Parent(p) = p THEN r
       ELSE LET up == PathMkdir(fs, Parent(p), TRUE, TRUE) IN
            IF up.err # "none" THEN up
            ELSE PathMkdir(up.fs, p, FALSE, exist_ok)
  ELSE IF ~exist_ok \/ ~IsDir(fs, p) THEN r
  ELSE [err |-> "none", fs |-> fs]

\* Faulty variant of OpenWrite: the file is opened for appending, not truncated.
OpenAppend(fs, p, data) ==
  LET r == Lookup(fs, p) IN
  IF r.err # "none" THEN [err |-> r.err, fs |-> fs]
  ELSE IF r.at \in DOMAIN fs /\ fs[r.at].kind = "dir" THEN [err |-> "EISDIR", fs |-> fs]
  ELSE IF r.at \in DOMAIN fs THEN [err |-> "none", fs |-> Put(fs, r.at, File(fs[r.at].data \o data))]
  ELSE [err |-> "none", fs |-> Put(fs, r.at, File(data))]

\* open(path, 'wb') followed by write(data) and close.
OpenWrite(fs, p, data) ==
  LET r == Lookup(fs, p) IN
  IF r.err # "none" THEN [err |-> r.err, fs |-> fs]
  ELSE IF r.at \in DOMAIN fs /\ fs[r.at].kind = "dir" THEN [err |-> "EISDIR", fs |-> fs]
  ELSE [err |-> "none", fs |-> Put(fs, r.at, File(data))]

\* ------------------------------------------------------ archive members
Member(name, kind, data, linkname) ==
  [name |-> name, kind |-> kind, data |-> data, linkname |-> linkname]

isfile(m) == m.kind = "file"
isdir(m)  == m.kind = "dir"
islnk(m)  == m.kind = "lnk"
issym(m)  == m.kind = "sym"

\* member.size: the size field of the header (the bytes of a regular file; the
\* "other" member below declares one byte although it is no file).
size(m) == Len(m.data)

\* --------------------------------------------------------------- inputs
Names ==
  { P(FALSE, <<"a">>), P(FALSE, <<"a", "b">>), P(FALSE, <<"a", "b", "..", "..", "c">>),
    P(FALSE, <<"..", "..", "e">>), P(TRUE, <<"e">>), P(TRUE, <<"w", "out", "a">>) }

Datas == { <<0>>, <<1, 1>> }

Members ==
  { Member(n, "file", d, NoName) : n \in Names, d \in Datas }
  \cup { Member(n, "dir", <<>>, NoName) :
           n \in { P(FALSE, <<"a">>), P(FALSE, <<"a", "b">>), P(FALSE, <<"..", "..", "e">>) } }
  \cup { Member(P(FALSE, <<"a">>), k, <<>>, P(FALSE, <<"..", "e">>)) : k \in {"sym", "lnk"} }
  \cup { Member(P(FALSE, <<"a">>), "sym", <<>>, P(FALSE, <<"c">>)),
         Member(P(FALSE, <<"a", "b">>), "other", <<1>>, NoName) }

\* What is on disk before the program starts: "/" and the working directory,
\* and the destination either absent, a directory, or a plain file.
InitialFs(rootInit) ==
  LET base == [q \in {<<>>, Cwd} |-> Dir] IN
  CASE rootInit = "absent" -> base
    [] rootInit = "dir"    -> Put(base, Root, Dir)
    [] rootInit = "file"   -> Put(base, Root, File(<<>>))

\* ---------------------------------------------------------------- state
VARIABLES
  archive,            \* the file at tar_path
  max_extract_size,   \* self.max_extract_size
  max_files,          \* self.max_files
  fs,                 \* the file system
  fs0,                \* the file system when the current call began
  pc,                 \* "idle", "open", "loop", "returned", "raised", "exited"
  mode,               \* "none", "list", "extract": the method running
  pos,                \* members the tar iterator has yielded
  file_count,         \* local file_count
  total_size,         \* local total_size
  tarOpen,            \* the archive handle is open
  out,                \* lines printed by the current call
  ret,                \* "None", "True", "False": the call's return value
  calls,              \* calls made so far
  prev,               \* each finished call: mode, output, result, totals, limits
  exit_status         \* -1 while running, else the process exit status

vars == <<archive, max_extract_size, max_files, fs, fs0, pc, mode, pos, file_count,
          total_size, tarOpen, out, ret, calls, prev, exit_status>>

Line(t, msg, name, n) == [t |-> t, msg |-> msg, name |-> name, n |-> n]

\* SecureTarProcessor.__init__ with the two limits, and the world around it.
Init ==
  /\ \/ \E n \in 0..MaxEntries : \E a \in [1..n -> Members] :
          archive = [state |-> "ok", entries |-> a]
     \/ \E st \in {"corrupt", "missing"} : archive = [state |-> st, entries |-> <<>>]
  /\ max_extract_size \in {1, 3}
  /\ max_files \in {1, 2}
  /\ \E r \in {"absent", "dir", "file"} : fs = InitialFs(r)
  /\ fs0 = fs
  /\ pc = "idle"
  /\ mode = "none"
  /\ pos = 0
  /\ file_count = 0
  /\ total_size = 0
  /\ tarOpen = FALSE
  /\ out = <<>>
  /\ ret = "None"
  /\ calls = 0
  /\ prev = <<>>
  /\ exit_status = -1

\* ------------------------------------------------------- the two limits
\* Faulty variant of TooManyFiles: the count is compared one too late.
TooManyFilesOffByOne(count) == count > max_files + 1

\* if file_count > self.max_files
TooManyFiles(count) == count > max_files

\* if total_size > self.max_extract_size
TooLarge(total) == total > max_extract_size

\* list_archive's own copy of the two comparisons.
\* if file_count > self.max_files
ListTooManyFiles(count) == count > max_files

\* Faulty variant of ListTooLarge: a total equal to the limit is refused.
ListTooLargeOrEqual(total) == total >= max_extract_size

\* if total_size > self.max_extract_size
ListTooLarge(total) == total > max_extract_size

\* The comparison of the method that is running.
OverCount(count) == IF mode = "list" THEN ListTooManyFiles(count) ELSE TooManyFiles(count)

OverSize(total) == IF mode = "list" THEN ListTooLarge(total) ELSE TooLarge(total)

\* Faulty variant of AddSize: the size is added whatever the member's kind.
AddSizeAnyKind(total, m) == total + size(m)

\* total_size after "if member.isfile(): total_size += member.size"
AddSize(total, m) == IF isfile(m) THEN total + size(m) ELSE total

\* _get_type_char
_get_type_char(m) ==
  IF isfile(m) THEN "f"
  ELSE IF isdir(m) THEN "d"
  ELSE IF islnk(m) THEN "l"
  ELSE IF issym(m) THEN "s"
  ELSE "?"

\* The except clauses: tarfile.ReadError first, any other exception second.
Caught(kind, msg, n) ==
  Line(IF kind = "ReadError"
         THEN (IF mode = "list" THEN "Error reading tar file" ELSE "Error extracting tar file")
         ELSE "Unexpected error",
       msg, NoName, n)

\* ----------------------------------------------------------- the calls
\* A call is made on a fresh processor, or after an earlier call has returned.
FirstCall == pc = "idle"
LaterCall == pc = "returned" /\ calls < MaxCalls

BeginCall(m, f) ==
  /\ mode' = m
  /\ calls' = calls + 1
  /\ prev' = IF pc = "returned"
               THEN Append(prev, [mode |-> mode, out |-> out, ret |-> ret, pos |-> pos,
                                  file_count |-> file_count, total_size |-> total_size,
                                  max_files |-> max_files,
                                  max_extract_size |-> max_extract_size])
               ELSE prev
  /\ fs' = f
  /\ fs0' = fs
  /\ ret' = "None"
  /\ pos' = 0
  /\ UNCHANGED <<archive, max_extract_size, max_files, file_count, total_size, tarOpen,
                 exit_status>>

\* list_archive, up to the try.
ListBegins ==
  /\ BeginCall("list", fs)
  /\ out' = <<Line("Listing contents of", "", NoName, 0), Line("rule", "", NoName, 0)>>
  /\ pc' = "open"

\* extract_archive, up to the try: extract_path.mkdir(exist_ok=True), outside
\* every handler.
ExtractBegins ==
  LET r == PathMkdir(fs, extract_path, FALSE, TRUE) IN
  /\ BeginCall("extract", r.fs)
  /\ IF r.err = "none"
       THEN /\ out' = <<Line("Extracting", "", NoName, 0), Line("rule", "", NoName, 0)>>
            /\ pc' = "open"
       ELSE /\ out' = <<>>
            /\ pc' = "raised"

CallList == FirstCall /\ ListBegins

CallExtract == FirstCall /\ ExtractBegins

ListAgain == LaterCall /\ ListBegins

ExtractAgain == LaterCall /\ ExtractBegins

\* Faulty variant of OpenArchive: the totals of the call before are kept.
OpenArchiveKeepsTotals ==
  /\ pc = "open"
  /\ archive.state = "ok"
  /\ tarOpen' = TRUE
  /\ pc' = "loop"
  /\ UNCHANGED <<archive, max_extract_size, max_files, fs, fs0, mode, pos, out, ret, calls,
                 prev, exit_status, file_count, total_size>>

\* Faulty variant of OpenArchive: total_size is not set to zero.
OpenArchiveKeepsSize ==
  /\ pc = "open"
  /\ archive.state = "ok"
  /\ tarOpen' = TRUE
  /\ file_count' = 0
  /\ pc' = "loop"
  /\ UNCHANGED <<archive, max_extract_size, max_files, fs, fs0, mode, pos, out, ret, calls,
                 prev, exit_status, total_size>>

\* with tarfile.open(tar_path, 'r') as tar, and the two locals set to zero.
OpenArchive ==
  /\ pc = "open"
  /\ archive.state = "ok"
  /\ tarOpen' = TRUE
  /\ file_count' = 0
  /\ total_size' = 0
  /\ pc' = "loop"
  /\ UNCHANGED <<archive, max_extract_size, max_files, fs, fs0, mode, pos, out, ret, calls,
                 prev, exit_status>>

\* tarfile.open raises: ReadError for an unreadable file, FileNotFoundError
\* for a missing one; either is caught and the call returns False.
OpenFails ==
  /\ pc = "open"
  /\ archive.state # "ok"
  /\ out' = Append(out, IF archive.state = "corrupt"
                          THEN Caught("ReadError", "open", 0)
                          ELSE Caught("Exception", "ENOENT", 0))
  /\ ret' = "False"
  /\ pc' = "returned"
  /\ UNCHANGED <<archive, max_extract_size, max_files, fs, fs0, mode, pos, file_count,
                 total_size, tarOpen, calls, prev, exit_status>>

InLoop == pc = "loop" /\ pos < Len(archive.entries)

member == archive.entries[pos + 1]

\* Faulty variant of Abort: the exception is caught with the handle left open.
AbortLeavesOpen(line) ==
  /\ out' = Append(out, line)
  /\ tarOpen' = tarOpen
  /\ ret' = "False"
  /\ pc' = "returned"

\* An exception leaves the with block (the handle is closed), is caught, and
\* the call returns False.
Abort(line) ==
  /\ out' = Append(out, line)
  /\ tarOpen' = FALSE
  /\ ret' = "False"
  /\ pc' = "returned"

\* Faulty variant of RaiseTooMany: the size is added and compared before the
\* count is.
RaiseSizeFirst ==
  /\ InLoop
  /\ OverCount(file_count + 1)
  /\ pos' = pos + 1
  /\ file_count' = file_count + 1
  /\ IF isfile(member) /\ OverSize(AddSize(total_size, member))
       THEN /\ total_size' = AddSize(total_size, member)
            /\ Abort(Caught("ReadError", "Archive too large", max_extract_size))
       ELSE /\ total_size' = total_size
            /\ Abort(Caught("ReadError", "Too many files", max_files))
  /\ UNCHANGED <<archive, max_extract_size, max_files, fs, fs0, mode, calls, prev,
                 exit_status>>

\* file_count += 1; if file_count > self.max_files: raise
RaiseTooMany ==
  /\ InLoop
  /\ OverCount(file_count + 1)
  /\ pos' = pos + 1
  /\ file_count' = file_count + 1
  /\ Abort(Caught("ReadError", "Too many files", max_files))
  /\ UNCHANGED <<archive, max_extract_size, max_files, fs, fs0, mode, total_size, calls,
                 prev, exit_status>>

\* total_size += member.size; if total_size > self.max_extract_size: raise
RaiseTooLarge ==
  /\ InLoop
  /\ ~OverCount(file_count + 1)
  /\ isfile(member)
  /\ OverSize(AddSize(total_size, member))
  /\ pos' = pos + 1
  /\ file_count' = file_count + 1
  /\ total_size' = AddSize(total_size, member)
  /\ Abort(Caught("ReadError", "Archive too large", max_extract_size))
  /\ UNCHANGED <<archive, max_extract_size, max_files, fs, fs0, mode, calls, prev,
                 exit_status>>

\* Faulty variant of WithinLimits: the entry is let through on its count alone.
WithinCountOnly == ~OverCount(file_count + 1)

\* Neither raise was taken for the member at hand.
WithinLimits ==
  /\ ~OverCount(file_count + 1)
  /\ ~(isfile(member) /\ OverSize(AddSize(total_size, member)))

Counted ==
  /\ pos' = pos + 1
  /\ file_count' = file_count + 1
  /\ total_size' = AddSize(total_size, member)

\* list_archive's loop body past the limits: one line per member.
ListMember ==
  /\ InLoop
  /\ mode = "list"
  /\ WithinLimits
  /\ Counted
  /\ out' = Append(out, Line(_get_type_char(member), "", member.name, size(member)))
  /\ UNCHANGED <<archive, max_extract_size, max_files, fs, fs0, pc, mode, tarOpen, ret,
                 calls, prev, exit_status>>

\* extract_archive's "Safe extraction" block for one member: the path is
\* joined, its parent made, then a regular file is written, a directory made,
\* and any other kind left alone.
Extract(f, m) ==
  LET safe_path == Join(extract_path, m.name)
      par == PathMkdir(f, Parent(safe_path), TRUE, TRUE)
  IN IF par.err # "none" THEN [err |-> par.err, fs |-> par.fs, t |-> "none"]
     ELSE IF isfile(m) THEN
            LET w == OpenWrite(par.fs, safe_path, m.data) IN
            [err |-> w.err, fs |-> w.fs, t |-> "Extracted"]
     ELSE IF isdir(m) THEN
            LET d == PathMkdir(par.fs, safe_path, FALSE, TRUE) IN
            [err |-> d.err, fs |-> d.fs, t |-> "Created directory"]
     ELSE [err |-> "none", fs |-> par.fs, t |-> "none"]

ExtractMember ==
  /\ InLoop
  /\ mode = "extract"
  /\ WithinLimits
  /\ LET x == Extract(fs, member) IN
     /\ x.err = "none"
     /\ fs' = x.fs
     /\ out' = IF x.t = "none" THEN out ELSE Append(out, Line(x.t, "", member.name, 0))
  /\ Counted
  /\ UNCHANGED <<archive, max_extract_size, max_files, fs0, pc, mode, tarOpen, ret, calls,
                 prev, exit_status>>

\* An OSError from mkdir or open: caught by "except Exception".
ExtractFails ==
  /\ InLoop
  /\ mode = "extract"
  /\ WithinLimits
  /\ LET x == Extract(fs, member) IN
     /\ x.err # "none"
     /\ fs' = x.fs
     /\ Abort(Caught("Exception", x.err, 0))
  /\ Counted
  /\ UNCHANGED <<archive, max_extract_size, max_files, fs0, mode, calls, prev, exit_status>>

\* The loop ends: the summary is printed (one line per number), the with block
\* closes the handle, and the call returns True.
EndOfArchive ==
  /\ pc = "loop"
  /\ pos = Len(archive.entries)
  /\ out' = out \o <<Line("rule", "", NoName, 0),
                     Line(IF mode = "list" THEN "Total files" ELSE "Extraction complete",
                          "", NoName, file_count),
                     Line("Total size", "", NoName, total_size)>>
  /\ tarOpen' = FALSE
  /\ ret' = "True"
  /\ pc' = "returned"
  /\ UNCHANGED <<archive, max_extract_size, max_files, fs, fs0, mode, pos, file_count,
                 total_size, calls, prev, exit_status>>

\* ---------------------------------------------------------------- main
\* if not os.path.exists(args.archive): sys.exit(1)
MainMissing ==
  /\ pc = "idle"
  /\ calls = 0
  /\ archive.state = "missing"
  /\ out' = <<Line("Error: Archive not found", "", NoName, 0)>>
  /\ exit_status' = 1
  /\ pc' = "exited"
  /\ UNCHANGED <<archive, max_extract_size, max_files, fs, fs0, mode, pos, file_count,
                 total_size, tarOpen, ret, calls, prev>>

\* Faulty variant of ExitStatus: main never reports failure.
ExitStatusAlwaysZero(r) == 0

\* The status main ends with: sys.exit(1) when the call did not return True.
ExitStatus(r) == IF r = "True" THEN 0 ELSE 1

\* main after its single call: "if not success: sys.exit(1)", else it falls
\* off the end; an exception that left the call ends the interpreter with 1.
MainExit ==
  /\ pc \in {"returned", "raised"}
  /\ calls = 1
  /\ archive.state # "missing"
  /\ exit_status' = ExitStatus(ret)
  /\ pc' = "exited"
  /\ UNCHANGED <<archive, max_extract_size, max_files, fs, fs0, mode, pos, file_count,
                 total_size, tarOpen, out, ret, calls, prev>>

Next ==
  \/ CallList
  \/ CallExtract
  \/ OpenArchive
  \/ OpenFails
  \/ RaiseTooMany
  \/ RaiseTooLarge
  \/ ListMember
  \/ ExtractMember
  \/ ExtractFails
  \/ EndOfArchive
  \/ MainMissing
  \/ MainExit

Spec == Init /\ [][Next]_vars

\* The processor used as a library: further calls after the first returns.
NextCalls ==
  \/ Next
  \/ ListAgain
  \/ ExtractAgain

SpecCalls == Init /\ [][NextCalls]_vars

\* ------------------------------------------------- vocabulary of the claims
\* Lexical canonicalization: "." and ".." resolved on the text of the path alone.
RECURSIVE Canon(_, _)
Canon(acc, parts) ==
  IF parts = <<>> THEN acc
  ELSE IF Head(parts) = ".." THEN Canon(Up(acc), Tail(parts))
  ELSE Canon(Append(acc, Head(parts)), Tail(parts))

\* The join of the destination root and an entry name, canonicalized.
SanitizedPath(name) == Canon(IF name.abs THEN <<>> ELSE Root, name.parts)

IsUnder(root, q) == Len(q) >= Len(root) /\ SubSeq(q, 1, Len(root)) = root

Escapes(name) == ~IsUnder(Root, SanitizedPath(name))

\* A name the sanitizer accepts: relative, and resolving under the root.
Confined(name) == ~name.abs /\ ~Escapes(name)

HasDotDot(name) == \E k \in 1..Len(name.parts) : name.parts[k] = ".."

\* A link's target, taken relative to the entry's own directory.
LinkTarget(m) == Canon(Up(SanitizedPath(m.name)), m.linkname.parts)

IsLink(m) == m.kind \in {"sym", "lnk"}

entries == archive.entries

\* The call came back with a value (an exception that leaves it returns none).
Returned == pc \in {"returned", "exited"} /\ ret # "None"

Completed == Returned /\ ret = "True"

Aborted == Returned /\ ret = "False"

AbortReason == IF Aborted /\ out # <<>> THEN out[Len(out)].msg ELSE "none"

LimitAbort == AbortReason \in {"Too many files", "Archive too large"}

PathAbort == AbortReason \in {"PathTraversalRejected", "AbsolutePathRejected"}

\* Entry i was read and the limits let it through.
Validated(i) == i < pos \/ (i = pos /\ ~LimitAbort)

\* The file system extract starts its walk on, and the one that the first n
\* entries of the archive leave behind.
StartFs == PathMkdir(fs0, extract_path, FALSE, TRUE).fs

RECURSIVE Replay(_, _, _)
Replay(f, es, n) == IF n = 0 THEN f ELSE Extract(Replay(f, es, n - 1), es[n]).fs

EffectsOfFirst(n) == IF mode = "extract" THEN Replay(StartFs, entries, n) ELSE fs0

RECURSIVE SumSizes(_)
SumSizes(es) ==
  IF es = <<>> THEN 0
  ELSE (IF isfile(Head(es)) THEN size(Head(es)) ELSE 0) + SumSizes(Tail(es))

\* ---------------------------------------------------------------- claims

\* C1: in extract mode an entry whose name, joined to the destination root,
\* lexically resolves outside the root aborts the walk at that entry with a path
\* violation, extract reports failure, and nothing is ever created or written
\* outside the destination root.
C1_TraversalAborts ==
  mode = "extract" =>
    /\ \A q \in DOMAIN fs : IsUnder(Root, q) \/ (q \in DOMAIN fs0 /\ fs[q] = fs0[q])
    /\ \A i \in 1..pos :
         (Escapes(entries[i].name) /\ Validated(i)) => (i = pos /\ Aborted /\ PathAbort)

\* C2: in extract mode an entry whose name is an absolute path is rejected with
\* AbsolutePathRejected, wherever the path lies; the walk aborts there and
\* extract reports failure.
C2_AbsoluteRejected ==
  mode = "extract" =>
    \A i \in 1..pos :
      (entries[i].name.abs /\ Validated(i)) =>
        (i = pos /\ Aborted /\ AbortReason = "AbsolutePathRejected")

\* C3: in both modes the walk aborts exactly when entry max_files + 1 is read:
\* it returns failure, reports "Too many files" with the configured ceiling, and
\* the file system holds exactly the effects of the first max_files entries.
C3_TooManyEntries ==
  /\ pos > max_files =>
       /\ pos = max_files + 1
       /\ Aborted
       /\ AbortReason = "Too many files"
       /\ out[Len(out)].n = max_files
       /\ out[Len(out)].t = (IF mode = "list" THEN "Error reading tar file"
                                              ELSE "Error extracting tar file")
       /\ fs = EffectsOfFirst(max_files)
  /\ AbortReason = "Too many files" => pos = max_files + 1

C3_Witness ==
  /\ pc = "returned"
  /\ mode = "extract"
  /\ AbortReason = "Too many files"
  /\ pos = 2
  /\ fs # StartFs

\* C4: in extract mode the limit checks of an entry come before its side
\* effects: a regular file whose size takes total_size above max_extract_size
\* aborts the walk with "Archive too large" (and the ceiling), and the file system
\* holds the effects of the earlier entries only; while the walk runs the file
\* system holds the effects of entries that passed both limits.
C4_LimitsBeforeEffects ==
  mode = "extract" =>
    /\ total_size > max_extract_size =>
         /\ Aborted
         /\ AbortReason = "Archive too large"
         /\ out[Len(out)].n = max_extract_size
         /\ isfile(entries[pos])
         /\ fs = EffectsOfFirst(pos - 1)
    /\ AbortReason = "Archive too large" => total_size > max_extract_size
    /\ pc = "loop" =>
         /\ file_count <= max_files
         /\ total_size <= max_extract_size
         /\ fs = EffectsOfFirst(pos)

C4_Witness ==
  /\ pc = "returned"
  /\ mode = "extract"
  /\ AbortReason = "Archive too large"
  /\ pos = 2
  /\ fs # StartFs

\* An archive within both limits whose names are all confined under the root.
C5_Pre ==
  /\ mode = "extract"
  /\ archive.state = "ok"
  /\ Len(entries) <= max_files
  /\ SumSizes(entries) <= max_extract_size
  /\ \A i \in 1..Len(entries) : Confined(entries[i].name)

OnDisk(i) ==
  /\ SanitizedPath(entries[i].name) \in DOMAIN fs
  /\ fs[SanitizedPath(entries[i].name)] = File(entries[i].data)

\* Entry i is the last regular file of the archive to land on its location.
LastWriter(i) ==
  \A j \in (i + 1)..Len(entries) :
    isfile(entries[j]) => SanitizedPath(entries[j].name) # SanitizedPath(entries[i].name)

C6_ModeDependentPolicy ==
  \A i \in 1..pos :
    ((entries[i].name.abs \/ Escapes(entries[i].name)) /\ Validated(i)) =>
      /\ mode = "list" =>
           \E k \in 1..Len(out) : out[k].t = "Warning" /\ out[k].name = entries[i].name
      /\ mode = "extract" => (i = pos /\ Aborted /\ PathAbort)

\* C7: in extract mode a symbolic or hard link entry whose target, resolved
\* relative to the entry's own directory, escapes the destination root aborts
\* the walk with PathTraversalRejected, even when its own name is confined.
C7_LinkTargetRejected ==
  mode = "extract" =>
    \A i \in 1..pos :
      (IsLink(entries[i]) /\ Confined(entries[i].name)
         /\ ~IsUnder(Root, LinkTarget(entries[i])) /\ Validated(i)) =>
        (i = pos /\ Aborted /\ AbortReason = "PathTraversalRejected")

\* C8: list never changes the file system, and a list call that follows a list
\* call on the same processor and archive prints the same lines and returns the
\* same result.
C8_ListIdempotent ==
  /\ mode = "list" => fs = fs0
  /\ (pc = "returned" /\ mode = "list" /\ prev # <<>> /\ prev[Len(prev)].mode = "list") =>
       (out = prev[Len(prev)].out /\ ret = prev[Len(prev)].ret)

C8_Witness ==
  /\ pc = "returned"
  /\ mode = "list"
  /\ Len(prev) = 1
  /\ prev[1].mode = "list"
  /\ ret = "False"
  /\ pos = 2

\* C9: the exit status is 0 exactly when the walk reached Completed, and it is
\* non-zero when the archive is missing, cannot be opened, or the walk aborted.
C9_ExitStatus ==
  pc = "exited" =>
    /\ exit_status \in {0, 1}
    /\ exit_status = 0 <=> (ret = "True" /\ archive.state = "ok" /\ pos = Len(entries))
    /\ archive.state # "ok" => exit_status # 0
    /\ ret = "False" => exit_status # 0

C9_Witness ==
  /\ pc = "exited"
  /\ exit_status = 1
  /\ mode = "extract"
  /\ AbortReason = "ENOTDIR"

\* C10: in extract mode an entry whose name holds ".." segments and still
\* resolves lexically inside the root is accepted: the walk does not abort on
\* it, and a regular file's content is at the resolved location.
C10_InternalDotDotAccepted ==
  mode = "extract" =>
    \A i \in 1..pos :
      (HasDotDot(entries[i].name) /\ Confined(entries[i].name) /\ Validated(i)) =>
        /\ ~(i = pos /\ Aborted)
        /\ (i = pos /\ isfile(entries[i])) => OnDisk(i)

\* What the path sanitizer of the design rejects: an absolute name, a name that
\* resolves outside the root, a link whose target does.
PathFailure(m) ==
  \/ m.name.abs
  \/ Escapes(m.name)
  \/ (IsLink(m) /\ ~IsUnder(Root, LinkTarget(m)))

\* A call of list_archive or extract_archive has returned its boolean.
WalkEnded == Returned /\ mode # "none"

\* C11: a walk ends in exactly one of Completed and Aborted, and it ends
\* Completed exactly when every entry was read and there was no limit failure,
\* no I/O failure and, in extract mode, no entry the path sanitizer rejects.
C11_WalkOutcome ==
  WalkEnded =>
    /\ Completed \/ Aborted
    /\ ~(Completed /\ Aborted)
    /\ Completed <=>
         /\ pos = Len(entries)
         /\ ~Aborted
         /\ mode = "extract" => \A i \in 1..Len(entries) : ~PathFailure(entries[i])

\* No entry has been acted on yet: the archive is not open, no entry was read,
\* or the walk ended on a failed open or on a limit at the very first entry.
NothingActedOn ==
  \/ pc = "open"
  \/ (pc = "loop" /\ pos = 0)
  \/ (Aborted /\ archive.state # "ok")
  \/ (Aborted /\ pos = 1 /\ LimitAbort)

\* C12: in extract mode the file system is changed only while acting on a
\* validated entry; when the archive cannot be opened or the very first entry is
\* rejected, the file system, the destination directory included, is as the
\* call found it.
C12_NoEarlyEffects == (mode = "extract" /\ NothingActedOn) => fs = fs0

\* Entry i is a link or of another kind, and the limits and the path sanitizer
\* of the design let it through.
SkippedKind(i) ==
  /\ Validated(i)
  /\ ~PathFailure(entries[i])
  /\ ~isfile(entries[i])
  /\ ~isdir(entries[i])

\* A warning line about entry i was printed.
Warned(i) == \E k \in 1..Len(out) : out[k].t = "Warning" /\ out[k].name = entries[i].name

\* C13: a link entry that passes validation is materialized as a link or
\* skipped with a warning line (no link is ever made here, so a warning line it
\* is), and a skipped link or entry of another kind leaves no trace of its own
\* on the file system.
C13_LinksAndSkips ==
  mode = "extract" =>
    \A i \in 1..pos :
      SkippedKind(i) =>
        /\ IsLink(entries[i]) => Warned(i)
        /\ i = pos => fs = EffectsOfFirst(i - 1)

\* The entries whose size the walk has added: all those read, but for the one
\* on which "Too many files" was raised.
Summed == IF AbortReason = "Too many files" THEN pos - 1 ELSE pos

\* C14 as stated: at every step file_count is the number of entries read and
\* total_size the sum of the sizes of the regular files among them.
C14_CountersMatchRead ==
  /\ file_count = pos
  /\ total_size = SumSizes(SubSeq(entries, 1, pos))

\* One step of a walk never lowers a counter, and reading an entry that is not
\* a regular file leaves total_size alone.
C14_Step ==
  /\ file_count' >= file_count
  /\ total_size' >= total_size
  /\ (pos' = pos + 1 /\ ~isfile(entries[pos + 1])) => total_size' = total_size

\* C14: the counters start at zero and never decrease within a walk;
\* file_count is the number of entries read, total_size is the sum of the sizes
\* of the regular files read, the entry that raised "Too many files" being
\* counted but not summed; entries that are not regular files never change
\* total_size.
C14_Counters ==
  /\ [](file_count = pos /\ total_size = SumSizes(SubSeq(entries, 1, Summed)))
  /\ [][C14_Step]_vars

C14_Witness ==
  /\ AbortReason = "Too many files"
  /\ isfile(entries[pos])
  /\ size(entries[pos]) > 0
  /\ \E i \in 1..(pos - 1) : ~isfile(entries[i]) /\ size(entries[i]) > 0

RECURSIVE Verdict(_, _, _, _, _, _)
Verdict(es, i, count, total, mf, ms) ==
  IF i > Len(es) THEN [kind |-> "none", at |-> Len(es)]
  ELSE IF count + 1 > mf THEN [kind |-> "Too many files", at |-> i]
  ELSE LET t == IF isfile(es[i]) THEN total + size(es[i]) ELSE total IN
       IF isfile(es[i]) /\ t > ms THEN [kind |-> "Archive too large", at |-> i]
       ELSE Verdict(es, i + 1, count + 1, t, mf, ms)

LimitVerdict == Verdict(entries, 1, 0, 0, max_files, max_extract_size)

\* C16: whatever calls came before, aborted ones included, a walk starts with
\* file_count = 0 and total_size = 0, the two limits are those every earlier
\* call ran under, and the limit outcome of a returned walk is the one the
\* archive and the limits alone determine (an I/O failure can only end the walk
\* before the entry that outcome falls on).
C16_NoStateAcrossCalls ==
  /\ (pc = "loop" /\ pos = 0) => (file_count = 0 /\ total_size = 0)
  /\ \A k \in 1..Len(prev) :
       prev[k].max_files = max_files /\ prev[k].max_extract_size = max_extract_size
  /\ (WalkEnded /\ archive.state = "ok") =>
       IF LimitAbort THEN LimitVerdict = [kind |-> AbortReason, at |-> pos]
       ELSE IF Completed THEN LimitVerdict.kind = "none"
       ELSE LimitVerdict.kind = "none" \/ LimitVerdict.at > pos

C16_Witness ==
  /\ calls = 2
  /\ prev[1].ret = "False"
  /\ prev[1].total_size > 0
  /\ WalkEnded
  /\ LimitAbort
  /\ total_size = prev[1].total_size

\* Why the k-th earlier call returned False, or none.
PrevReason(k) ==
  IF prev[k].ret = "False" /\ prev[k].out # <<>>
    THEN prev[k].out[Len(prev[k].out)].msg
    ELSE "none"

Limits == {"Too many files", "Archive too large"}

\* The call that has just returned and the k-th call before it ran the two
\* different methods on an archive of safe names, neither meeting an I/O failure.
ComparableWith(k) ==
  /\ WalkEnded
  /\ archive.state = "ok"
  /\ prev[k].mode # mode
  /\ \A i \in 1..Len(entries) : ~PathFailure(entries[i])
  /\ Aborted => LimitAbort
  /\ PrevReason(k) \in Limits \cup {"none"}

\* C17: list_archive and extract_archive take the same limit decisions on the
\* same archive: one is refused on a limit exactly when the other is, for the
\* same limit, at the same entry, with the same file_count and total_size; and
\* both compare strictly, so an archive of exactly max_files entries and exactly
\* max_extract_size bytes is not refused.
C17_SameLimitDecisions ==
  /\ \A k \in 1..Len(prev) :
       ComparableWith(k) =>
         /\ PrevReason(k) = AbortReason
         /\ prev[k].pos = pos
         /\ prev[k].file_count = file_count
         /\ prev[k].total_size = total_size
  /\ (WalkEnded /\ Len(entries) <= max_files /\ SumSizes(entries) <= max_extract_size)
       => ~LimitAbort

C17_Witness ==
  /\ Len(prev) = 1
  /\ ComparableWith(1)
  /\ mode = "list"
  /\ Completed
  /\ Len(entries) = max_files
  /\ SumSizes(entries) = max_extract_size

\* The entry the walk ended on is entry number max_files + 1, a regular file
\* whose size also takes the sum past max_extract_size.
BothLimitsAtOnce ==
  /\ WalkEnded
  /\ pos = max_files + 1
  /\ isfile(entries[pos])
  /\ SumSizes(SubSeq(entries, 1, pos - 1)) + size(entries[pos]) > max_extract_size

\* C18: a regular file that breaks both limits at once is refused with "Too
\* many files", not "Archive too large", and its size is not in total_size:
\* the count is checked before the size is added.
C18_CountCheckedFirst ==
  BothLimitsAtOnce =>
    /\ AbortReason = "Too many files"
    /\ total_size = SumSizes(SubSeq(entries, 1, pos - 1))

C18_Witness ==
  /\ BothLimitsAtOnce
  /\ Aborted
  /\ total_size + size(entries[pos]) > max_extract_size
  /\ total_size <= max_extract_size

====
